---- MODULE Spec2Model ----
(***************************************************************************)
(* Model of gcp_microservice_management: the four "ensure" operations      *)
(*   deploy_to_cloud_run          (kind Service)                            *)
(*   create_api_gateway_service   (kind GatewayApi)                         *)
(*   create_or_update_api_config  (kind GatewayApiConfig)                   *)
(*   create_gateway               (kind Gateway)                            *)
(* run against one remote resource name.  Every remote call and every      *)
(* sleep of a run is appended to `log`, with the response the call got,    *)
(* the clock when it was issued and the remote status it met.              *)
(*                                                                         *)
(* Environment assumptions: the remote resource changes only through this  *)
(* program's calls (spec section 5: no concurrency); delete and create are  *)
(* asynchronous on the remote side (the code polls for both); any remote   *)
(* call may raise an error other than NotFound; a failed create leaves     *)
(* the remote unchanged; time is counted in seconds and passes in sleeps   *)
(* and in create calls, and is counted from the start of each invocation.  *)
(*                                                                         *)
(* `args` are the arguments of the invocation, `service` the Service        *)
(* descriptor deploy_to_cloud_run builds from them, `stages` the stages of  *)
(* a gateway chain that have returned, `walk` the state of find_env_file.   *)
(*                                                                         *)
(* Specifications: Spec (one operation, invoked up to MaxRuns times),       *)
(* SpecChain (the three gateway operations one after the other), SpecRace   *)
(* (Spec with another actor that removes the resource), SpecEnv             *)
(* (find_env_file).                                                         *)
(***************************************************************************)
EXTENDS Integers, Sequences, FiniteSets

VARIABLES kind, remote, pc, outcome, log, now, start_time, polls, fails, run, finals,
          args, service, stages, walk

vars == <<kind, remote, pc, outcome, log, now, start_time, polls, fails, run, finals,
          args, service, stages, walk>>

\* what the steps of one operation leave alone: its arguments, the results of the
\* stages of a gateway chain that ran before it, and the search for the .env file
frame == <<args, stages, walk>>

-----------------------------------------------------------------------------
(* Bounds of the model *)

\* most sleeps one polling loop (deletion wait, activation wait) takes
MaxPolls == 3
\* most failed create attempts of the GatewayApiConfig retry loop within the deadline
MaxAttempts == 3
\* invocations of the operation in one behaviour
MaxRuns == 2

(* Program constants *)

\* time.sleep(5)
SleepSeconds == 5
\* datetime.timedelta(minutes=10), in seconds
MaxDurationSeconds == 600

\* seconds a create call may block before it returns or raises
Durations == {0, 295, 300}

Kinds == {"Service", "GatewayApi", "GatewayApiConfig", "Gateway"}

Absent == [status |-> "absent", spec |-> "none"]
Stale  == [status |-> "active", spec |-> "old"]

\* the descriptor the operation builds from its arguments: the same on every invocation
DesiredSpec == "desired"

-----------------------------------------------------------------------------
(* Arguments and descriptors *)

\* values an identifier argument is given: the empty string and a usual one
IdValues == {"", "id"}

\* cloud_sql_instance: left at its default None, an empty string, a connection name
CloudSqlValues == {"None", "", "proj:region:inst"}

\* the location of the resource: an argument of deploy_to_cloud_run and
\* create_gateway, the literal "global" in the two other operations
Regions(k) == IF k \in {"Service", "Gateway"} THEN IdValues ELSE {"global"}

\* only deploy_to_cloud_run has the cloud_sql_instance parameter
CloudSqlInputs(k) == IF k = "Service" THEN CloudSqlValues ELSE {"None"}

ArgsOf(k) ==
  [project_id : IdValues, region : Regions(k), name : IdValues,
   cloud_sql_instance : CloudSqlInputs(k)]

\* the last but one component of the f-string that names the resource
Collection(k) ==
  CASE k = "Service"          -> "services"
    [] k = "GatewayApi"       -> "apis"
    [] k = "GatewayApiConfig" -> "configs"
    [] k = "Gateway"          -> "gateways"

\* f"projects/{project_id}/locations/{region}/services/{service_name}" and its like:
\* the components are the arguments as given, empty ones included (of the two
\* identifiers in the name of an API config, api_id and api_config_id, the name
\* argument stands for the last)
ResourceName(k, a) ==
  <<"projects", a.project_id, "locations", a.region, Collection(k), a.name>>

\* Python truth value of the cloud_sql_instance argument
Truthy(v) == v \notin {"None", ""}

\* volume_mounts, volumes and annotations of the Service deploy_to_cloud_run builds
BuildService_NoAnnotation(cloud_sql_instance) ==
  IF Truthy(cloud_sql_instance)
  THEN [volume_mounts |-> <<[name |-> "cloudsql", mount_path |-> "/cloudsql"]>>,
        volumes |-> <<[name |-> "cloudsql", instances |-> <<cloud_sql_instance>>]>>,
        annotations |-> {}]
  ELSE [volume_mounts |-> <<>>, volumes |-> <<>>, annotations |-> {}]

BuildService(cloud_sql_instance) ==
  IF Truthy(cloud_sql_instance)
  THEN [volume_mounts |-> <<[name |-> "cloudsql", mount_path |-> "/cloudsql"]>>,
        volumes |-> <<[name |-> "cloudsql", instances |-> <<cloud_sql_instance>>]>>,
        annotations |-> {[key |-> "run.googleapis.com/cloudsql-instances",
                          value |-> cloud_sql_instance]}]
  ELSE [volume_mounts |-> <<>>, volumes |-> <<>>, annotations |-> {}]

\* no Service descriptor: before it is built, and in the gateway operations
NoService == [volume_mounts |-> <<>>, volumes |-> <<>>, annotations |-> {"unbuilt"}]

\* find_env_file has not been called
NoWalk == [cwd |-> 0, env_dirs |-> {}, current_dir |-> 0, result |-> "idle", env_path |-> -1]

-----------------------------------------------------------------------------
(* The remote resource control API, as the client sees it *)

\* get-by-name: the resource while it is visible, NotFound otherwise, or a transport error
GetResponses(r) ==
  (IF r.status \in {"active", "deleting"} THEN {"found"} ELSE {"notfound"}) \cup {"error"}

\* delete: accepted while the resource is there, NotFound once it is gone
DeleteResponses(r) ==
  (IF r.status \in {"active", "deleting"} THEN {"ok"} ELSE {"notfound"}) \cup {"error"}

\* create: accepted when the name is free; AlreadyExists or a transport error otherwise
CreateResponses(r) ==
  (IF r.status = "absent" THEN {"ok"} ELSE {}) \cup {"error"}

\* a remote call issued now, in phase pc, that met the remote status `rem` and came
\* back with `resp` after d seconds
Entry(op, resp, d) ==
  [op |-> op, resp |-> resp, ph |-> pc, at |-> now, ret |-> now + d, rem |-> remote.status,
   name |-> ResourceName(kind, args)]

\* time.sleep(5) begun at time t
SleepEntry(t) ==
  [op |-> "sleep", resp |-> "ok", ph |-> pc, at |-> t, ret |-> t + SleepSeconds, rem |-> "-",
   name |-> <<>>]

-----------------------------------------------------------------------------
(* Control flow of the operations: where each response leads *)

\* try: existing = client.get_...(name); if existing: ... except NotFound: ...
OnExistenceCheck_NoDelete(resp) ==
  CASE resp = "found"    -> "create"
    [] resp = "notfound" -> "create"
    [] OTHER             -> "failed"

OnExistenceCheck_AlwaysDelete(resp) ==
  CASE resp = "found"    -> "delete"
    [] resp = "notfound" -> "delete"
    [] OTHER             -> "failed"

OnExistenceCheck(resp) ==
  CASE resp = "found"    -> "delete"
    [] resp = "notfound" -> "create"
    [] OTHER             -> "failed"

\* client.delete_...(name) inside the try: NotFound is caught, anything else propagates
OnDelete_SkipWait(resp) ==
  CASE resp = "ok"       -> "create"
    [] resp = "notfound" -> "create"
    [] OTHER             -> "failed"

OnDelete_NotFoundFatal(resp) ==
  CASE resp = "ok"       -> "wait"
    [] resp = "notfound" -> "failed"
    [] OTHER             -> "failed"

OnDelete(resp) ==
  CASE resp = "ok"       -> "wait"
    [] resp = "notfound" -> "create"
    [] OTHER             -> "failed"

\* wait_for_deletion(get_fn, name): poll get until NotFound, sleeping between polls
OnDeletionPoll(resp) ==
  CASE resp = "found"    -> "wait"
    [] resp = "notfound" -> "create"
    [] OTHER             -> "failed"

\* the kinds whose operation ends in a "while True: get ... except NotFound: sleep" loop
HasActivationPoll_ServiceOnly(k) == k = "Service"

HasActivationPoll(k) == k \in {"Service", "GatewayApi"}

\* client.create_...(...) outside any try (Service, GatewayApi, Gateway)
OnCreate_NoActivationPoll(k, resp) ==
  CASE resp = "ok" -> IF k = "Service" THEN "bind" ELSE "done"
    [] OTHER       -> "failed"

OnCreate(k, resp) ==
  CASE resp = "ok" -> IF HasActivationPoll(k) THEN "activate" ELSE "done"
    [] OTHER       -> "failed"

\* except Exception: elapsed_time = now() - start_time; if elapsed_time > max_duration: raise
DeadlinePassed_Always(elapsed) == TRUE

DeadlinePassed_Never(elapsed) == FALSE

DeadlinePassed_AtOrAfter(elapsed) == elapsed >= MaxDurationSeconds

DeadlinePassed(elapsed) == elapsed > MaxDurationSeconds

\* while True: try: get; break except NotFound: sleep(5)
OnActivationPoll_GiveUp(k, resp) ==
  CASE resp = "found"    -> IF k = "Service" THEN "bind" ELSE "done"
    [] resp = "notfound" -> "failed"
    [] OTHER             -> "failed"

OnActivationPoll_BindAnyway(k, resp) ==
  CASE resp = "found"    -> IF k = "Service" THEN "bind" ELSE "done"
    [] resp = "notfound" -> "activate"
    [] OTHER             -> IF k = "Service" THEN "bind" ELSE "failed"

OnActivationPoll_Rollback(k, resp) ==
  CASE resp = "found"    -> IF k = "Service" THEN "bind" ELSE "done"
    [] resp = "notfound" -> "activate"
    [] OTHER             -> "delete"

OnActivationPoll(k, resp) ==
  CASE resp = "found"    -> IF k = "Service" THEN "bind" ELSE "done"
    [] resp = "notfound" -> "activate"
    [] OTHER             -> "failed"

\* run_command(cmd): reports a failing command and returns
run_command(resp) == "returned"

\* run_command(...) is called once, outside any try or loop, then the operation returns
OnBind_RetryOnFailure(resp) ==
  IF run_command(resp) = "raised" THEN "failed"
  ELSE IF resp = "fail" THEN "bind" ELSE "done"

OnBind(resp) ==
  IF run_command(resp) = "raised" THEN "failed" ELSE "done"

\* how a run that reached `p` ended
OutcomeOf_SwallowErrors(p) ==
  CASE p = "done"   -> "ok"
    [] p = "failed" -> "ok"
    [] OTHER        -> "none"

OutcomeOf(p) ==
  CASE p = "done"   -> "ok"
    [] p = "failed" -> "fatal"
    [] OTHER        -> "none"

-----------------------------------------------------------------------------
\* where an operation starts: deploy_to_cloud_run builds its descriptor first
Entry_pc(k) == IF k = "Service" THEN "build" ELSE "get"

Init ==
  /\ kind \in Kinds
  /\ remote \in {Absent, Stale}
  /\ pc = Entry_pc(kind)
  /\ args \in ArgsOf(kind)
  /\ service = NoService
  /\ stages = <<>>
  /\ walk = NoWalk
  /\ outcome = "none"
  /\ log = <<>>
  /\ now = 0
  /\ start_time = 0
  /\ polls = 0
  /\ fails = 0
  /\ run = 1
  /\ finals = <<>>

\* start_time = datetime.datetime.now(), taken when the create-retry loop is entered
StartTime_AtEntry(next, t) == start_time

StartTime(next, t) ==
  IF kind = "GatewayApiConfig" /\ next = "create" THEN t ELSE start_time

\* deploy_to_cloud_run, up to service = run_v2.Service(...): no remote call yet
BuildDescriptor ==
  /\ pc = "build"
  /\ kind = "Service"
  /\ service' = BuildService(args.cloud_sql_instance)
  /\ pc' = "get"
  /\ UNCHANGED <<kind, remote, outcome, log, now, start_time, polls, fails, run, finals>>
  /\ UNCHANGED frame

\* the existence check that opens every operation
GetExisting ==
  /\ pc = "get"
  /\ \E resp \in GetResponses(remote) :
       LET next == OnExistenceCheck(resp) IN
       /\ pc' = next
       /\ outcome' = OutcomeOf(next)
       /\ log' = Append(log, Entry("get", resp, 0))
       /\ start_time' = StartTime(next, now)
  /\ UNCHANGED <<kind, remote, now, polls, fails, run, finals>>
  /\ UNCHANGED <<service, frame>>

\* client.delete_...(name)
DeleteCall ==
  /\ pc = "delete"
  /\ \E resp \in DeleteResponses(remote) :
       LET next == OnDelete(resp) IN
       /\ pc' = next
       /\ outcome' = OutcomeOf(next)
       /\ log' = Append(log, Entry("delete", resp, 0))
       /\ remote' = IF resp = "ok" THEN [remote EXCEPT !.status = "deleting"] ELSE remote
       /\ start_time' = StartTime(next, now)
  /\ UNCHANGED <<kind, now, polls, fails, run, finals>>
  /\ UNCHANGED <<service, frame>>

\* one round of wait_for_deletion: a get, and a sleep when the resource is still there
WaitForDeletion ==
  /\ pc = "wait"
  /\ \E resp \in GetResponses(remote) :
       LET next == OnDeletionPoll(resp) IN
       /\ next = "wait" => polls < MaxPolls
       /\ pc' = next
       /\ outcome' = OutcomeOf(next)
       /\ log' = IF next = "wait"
                 THEN log \o <<Entry("get", resp, 0), SleepEntry(now)>>
                 ELSE Append(log, Entry("get", resp, 0))
       /\ now' = IF next = "wait" THEN now + SleepSeconds ELSE now
       /\ polls' = IF next = "wait" THEN polls + 1 ELSE 0
       /\ start_time' = StartTime(next, now')
  /\ UNCHANGED <<kind, remote, fails, run, finals>>
  /\ UNCHANGED <<service, frame>>

\* client.create_service / create_api / create_gateway: one call, not retried
CreateCall ==
  /\ pc = "create"
  /\ kind # "GatewayApiConfig"
  /\ \E resp \in CreateResponses(remote), d \in Durations :
       LET next == OnCreate(kind, resp) IN
       /\ pc' = next
       /\ outcome' = OutcomeOf(next)
       /\ log' = Append(log, Entry("create", resp, d))
       /\ remote' = IF resp = "ok" THEN [status |-> "creating", spec |-> DesiredSpec]
                    ELSE remote
       /\ now' = now + d
  /\ UNCHANGED <<kind, start_time, polls, fails, run, finals>>
  /\ UNCHANGED <<service, frame>>

\* one round of the create-retry loop of create_or_update_api_config
CreateApiConfig ==
  /\ pc = "create"
  /\ kind = "GatewayApiConfig"
  /\ \E resp \in CreateResponses(remote), d \in Durations :
       LET elapsed == (now + d) - start_time IN
       IF resp = "ok"
       THEN /\ pc' = "done"
            /\ outcome' = "ok"
            /\ log' = Append(log, Entry("create", resp, d))
            /\ remote' = [status |-> "creating", spec |-> DesiredSpec]
            /\ now' = now + d
            /\ fails' = 0
       ELSE IF DeadlinePassed(elapsed)
       THEN /\ pc' = "failed"
            /\ outcome' = "deadline"
            /\ log' = Append(log, Entry("create", resp, d))
            /\ now' = now + d
            /\ UNCHANGED <<remote, fails>>
       ELSE /\ fails < MaxAttempts
            /\ pc' = "create"
            /\ outcome' = "none"
            /\ log' = log \o <<Entry("create", resp, d), SleepEntry(now + d)>>
            /\ now' = now + d + SleepSeconds
            /\ fails' = fails + 1
            /\ UNCHANGED remote
  /\ UNCHANGED <<kind, start_time, polls, run, finals>>
  /\ UNCHANGED <<service, frame>>

\* one round of the activation loop: a get, and a sleep when it raised NotFound
ActivationPoll ==
  /\ pc = "activate"
  /\ \E resp \in GetResponses(remote) :
       LET next == OnActivationPoll(kind, resp) IN
       /\ next = "activate" => polls < MaxPolls
       /\ pc' = next
       /\ outcome' = OutcomeOf(next)
       /\ log' = IF next = "activate"
                 THEN log \o <<Entry("get", resp, 0), SleepEntry(now)>>
                 ELSE Append(log, Entry("get", resp, 0))
       /\ now' = IF next = "activate" THEN now + SleepSeconds ELSE now
       /\ polls' = IF next = "activate" THEN polls + 1 ELSE 0
  /\ UNCHANGED <<kind, remote, start_time, fails, run, finals>>
  /\ UNCHANGED <<service, frame>>

\* run_command("gcloud run services add-iam-policy-binding ...")
BindPolicy ==
  /\ pc = "bind"
  /\ \E resp \in {"ok", "fail"} :
       LET next == OnBind(resp) IN
       /\ pc' = next
       /\ outcome' = OutcomeOf(next)
       /\ log' = Append(log, Entry("bind", resp, 0))
  /\ UNCHANGED <<kind, remote, now, start_time, polls, fails, run, finals>>
  /\ UNCHANGED <<service, frame>>

\* the remote side finishes a deletion it accepted
RemoteFinishDelete ==
  /\ remote.status = "deleting"
  /\ remote' = Absent
  /\ UNCHANGED <<kind, pc, outcome, log, now, start_time, polls, fails, run, finals>>
  /\ UNCHANGED <<service, frame>>

\* the remote side makes a created resource visible
RemoteActivate ==
  /\ remote.status = "creating"
  /\ remote' = [remote EXCEPT !.status = "active"]
  /\ UNCHANGED <<kind, pc, outcome, log, now, start_time, polls, fails, run, finals>>
  /\ UNCHANGED <<service, frame>>

\* the caller invokes the operation again, with the same arguments, after a run
\* that returned normally and once the remote side has settled
Invoke ==
  /\ pc = "done"
  /\ run < MaxRuns
  /\ remote.status = "active"
  /\ pc' = Entry_pc(kind)
  /\ outcome' = "none"
  /\ service' = NoService
  /\ finals' = Append(finals, remote)
  /\ log' = <<>>
  /\ run' = run + 1
  /\ now' = 0
  /\ start_time' = 0
  /\ polls' = 0
  /\ fails' = 0
  /\ UNCHANGED <<kind, remote>>
  /\ UNCHANGED frame

Next ==
  \/ BuildDescriptor
  \/ GetExisting
  \/ DeleteCall
  \/ WaitForDeletion
  \/ CreateCall
  \/ CreateApiConfig
  \/ ActivationPoll
  \/ BindPolicy
  \/ RemoteFinishDelete
  \/ RemoteActivate
  \/ Invoke

Spec == Init /\ [][Next]_vars

-----------------------------------------------------------------------------
(* Reading the log of the current run *)

Ops(op) == {i \in DOMAIN log : log[i].op = op}

\* the remote calls of the run that raised an error other than NotFound
Errors == {i \in DOMAIN log : log[i].resp = "error"}

Min(S) == CHOOSE x \in S : \A y \in S : x <= y

IsGet(i, resp) == log[i].op = "get" /\ log[i].resp = resp

\* C1: in every operation (all four kinds), when the first get-by-name raises
\* NotFound, the run issues no delete call and no deletion poll, and the remote
\* call that follows the first get is the create call.
C1_AbsentGoesStraightToCreate ==
  (Len(log) >= 1 /\ IsGet(1, "notfound")) =>
     /\ Ops("delete") = {}
     /\ \A i \in DOMAIN log : log[i].ph # "wait"
     /\ Len(log) = 1 => pc = "create"
     /\ Len(log) >= 2 => log[2].op = "create"

C1_Witness ==
  /\ kind = "Gateway"
  /\ Len(log) >= 2
  /\ IsGet(1, "notfound")
  /\ log[2].op = "create"
  /\ log[2].resp = "ok"

C3_CreateOnlyWhenAbsent ==
  \A c \in Ops("create") :
     /\ log[c].rem = "absent"
     /\ c = Min(Ops("create")) =>
          /\ c >= 2
          /\ IsGet(c - 1, "notfound")
          /\ c - 1 = 1 \/ (log[c - 1].ph = "wait" /\ Ops("delete") # {})

C3_Witness ==
  /\ kind = "Service"
  /\ Ops("create") # {}
  /\ Ops("delete") # {}
  /\ log[Min(Ops("create"))].resp = "ok"
  /\ log[1].rem = "active"

\* seconds since the create-retry loop began at which entry i returned
ElapsedAtReturn(i) == log[i].ret - start_time

\* the create attempts of the run that raised
FailedCreates == {i \in Ops("create") : log[i].resp = "error"}

\* C4: in create_or_update_api_config, a create attempt that raises within the
\* 10 minutes is followed by one 5-second sleep and then by the next attempt;
\* an attempt that returns ends the operation with success.  So k failures
\* followed by a success give k + 1 create calls and k sleeps between them.
C4_RetryUntilCreated ==
  kind = "GatewayApiConfig" =>
     /\ \A c \in FailedCreates :
          ElapsedAtReturn(c) <= MaxDurationSeconds =>
             /\ c + 1 <= Len(log)
             /\ log[c + 1].op = "sleep"
             /\ log[c + 1].at = log[c].ret
             /\ log[c + 1].ret = log[c + 1].at + SleepSeconds
             /\ c + 2 <= Len(log) =>
                  (log[c + 2].op = "create" /\ log[c + 2].at = log[c + 1].ret)
     /\ \A c \in Ops("create") :
          log[c].resp = "ok" => (c = Len(log) /\ pc = "done" /\ outcome = "ok")
     /\ outcome = "ok" =>
          /\ Cardinality(Ops("create")) = Cardinality(FailedCreates) + 1
          /\ Cardinality({i \in Ops("sleep") : log[i].ph = "create"})
               = Cardinality(FailedCreates)

\* two attempts raise, the third returns, all within the deadline
C4_Witness ==
  /\ kind = "GatewayApiConfig"
  /\ outcome = "ok"
  /\ Cardinality(FailedCreates) = 2
  /\ Cardinality(Ops("create")) = 3
  /\ \A c \in Ops("create") : ElapsedAtReturn(c) <= MaxDurationSeconds

\* C5 as stated: when create_or_update_api_config fails it fails with the
\* deadline error, and no create attempt starts more than 10 minutes after the
\* retry loop began.
C5_NoAttemptStartsAfterDeadline ==
  kind = "GatewayApiConfig" =>
     /\ (pc = "failed" /\ Ops("create") # {}) => outcome = "deadline"
     /\ \A c \in Ops("create") : log[c].at - start_time <= MaxDurationSeconds

\* C5 amended: the retry loop is left by failure only with the deadline error,
\* raised at the first failed attempt that returns more than 10 minutes after
\* the loop began, and nothing is attempted after it; every attempt but the
\* first starts right after the sleep that follows a failure observed at or
\* before the 10 minutes (so an attempt can start after the 10-minute mark).
C5_NoAttemptAfterDeadlineObserved ==
  kind = "GatewayApiConfig" =>
     /\ (pc = "failed" /\ Ops("create") # {}) => outcome = "deadline"
     /\ outcome = "deadline" =>
          /\ Ops("create") = FailedCreates
          /\ log[Len(log)].op = "create"
          /\ ElapsedAtReturn(Len(log)) > MaxDurationSeconds
     /\ \A c \in FailedCreates :
          ElapsedAtReturn(c) > MaxDurationSeconds =>
             (c = Len(log) /\ outcome = "deadline")
     /\ \A c \in Ops("create") :
          c # Min(Ops("create")) =>
             /\ log[c - 1].op = "sleep"
             /\ log[c - 2].op = "create"
             /\ log[c - 2].resp = "error"
             /\ ElapsedAtReturn(c - 2) <= MaxDurationSeconds

\* every attempt failed, the last one started after the 10-minute mark
C5_Witness ==
  /\ kind = "GatewayApiConfig"
  /\ outcome = "deadline"
  /\ Cardinality(Ops("create")) >= 3
  /\ log[Len(log)].at - start_time > MaxDurationSeconds

\* C6: deploy_to_cloud_run issues the access-policy binding at most once, directly
\* after a get-by-name that succeeded after a successful create call, and exactly
\* once in a run that completes; no other operation issues it.
C6_BindOnceAfterActive ==
  /\ Cardinality(Ops("bind")) <= 1
  /\ kind # "Service" => Ops("bind") = {}
  /\ \A b \in Ops("bind") :
       /\ b >= 3
       /\ IsGet(b - 1, "found")
       /\ log[b - 1].ph = "activate"
       /\ \E c \in Ops("create") : c < b - 1 /\ log[c].resp = "ok"
  /\ (kind = "Service" /\ pc = "done") => Cardinality(Ops("bind")) = 1
  /\ (kind = "Service" /\ pc = "bind") =>
       (IsGet(Len(log), "found") /\ log[Len(log)].ph = "activate")

\* scenario A: the service is found, deleted, gone at the third deletion poll,
\* created, found active, and bound
C6_Witness ==
  /\ kind = "Service"
  /\ pc = "done"
  /\ Len(log) = 10
  /\ IsGet(1, "found")
  /\ log[2].op = "delete"
  /\ IsGet(3, "found")
  /\ IsGet(5, "found")
  /\ IsGet(7, "notfound")
  /\ log[8].op = "create"
  /\ IsGet(9, "found")
  /\ log[10].op = "bind"

\* the calls the claim is about: the initial existence check, delete, create and the
\* activation poll, the create attempts of create_or_update_api_config excepted
Unretried(i) ==
  /\ log[i].op \in {"get", "delete", "create"}
  /\ log[i].ph \in {"get", "delete", "create", "activate"}
  /\ ~(kind = "GatewayApiConfig" /\ log[i].op = "create")

\* C7: outside the create-retry loop of create_or_update_api_config, a get, delete
\* or create call that raises an error other than NotFound is the last remote
\* call of the run: the error propagates, nothing is retried, nothing is bound.
C7_ErrorsPropagate ==
  \A i \in Errors :
     Unretried(i) => (i = Len(log) /\ pc = "failed" /\ outcome = "fatal")

\* the activation poll of deploy_to_cloud_run raises after a successful create
C7_Witness ==
  /\ kind = "Service"
  /\ pc = "failed"
  /\ log[Len(log)].ph = "activate"
  /\ log[Len(log)].resp = "error"
  /\ \E c \in Ops("create") : log[c].resp = "ok"

ActivationGets == {i \in Ops("get") : log[i].ph = "activate"}

ActivationSleeps == {i \in Ops("sleep") : log[i].ph = "activate"}

ActivationNotFound == {i \in ActivationGets : log[i].resp = "notfound"}

\* C9: in the activation loop every get that raises NotFound is followed by a
\* 5-second sleep and another get, whatever the time; the loop is left only by a
\* get that succeeds (after N NotFound: N + 1 gets, N sleeps) or by another
\* error, never by a timeout: the deadline error belongs to GatewayApiConfig.
C9_ActivationPollUnbounded ==
  /\ \A i \in ActivationNotFound :
       /\ i + 1 <= Len(log)
       /\ log[i + 1].op = "sleep"
       /\ log[i + 1].ret = log[i + 1].at + SleepSeconds
       /\ i + 2 <= Len(log) => log[i + 2].op = "get"
       /\ i + 2 > Len(log) => pc = "activate"
  /\ Cardinality(ActivationSleeps) = Cardinality(ActivationNotFound)
  /\ (ActivationGets # {} /\ pc \in {"bind", "done"}) =>
       Cardinality(ActivationGets) = Cardinality(ActivationNotFound) + 1
  /\ outcome = "deadline" => (kind = "GatewayApiConfig" /\ ActivationGets = {})
  /\ (pc = "failed" /\ ActivationGets # {}) => log[Len(log)].resp = "error"

\* NotFound three times, then the get succeeds
C9_Witness ==
  /\ kind \in {"Service", "GatewayApi"}
  /\ pc \in {"bind", "done"}
  /\ Cardinality(ActivationNotFound) = 3
  /\ Cardinality(ActivationGets) = 4
  /\ Cardinality(ActivationSleeps) = 3

-----------------------------------------------------------------------------
(* The gateway chain: create_api_gateway_service, create_or_update_api_config *)
(* and create_gateway called one after the other by a deployment script.      *)

ChainOrder == <<"GatewayApi", "GatewayApiConfig", "Gateway">>

\* the arguments the script gives the stage of kind k
ChainArgs(k) ==
  [project_id |-> "id", region |-> IF k = "Gateway" THEN "id" ELSE "global",
   name |-> "id", cloud_sql_instance |-> "None"]

\* what is kept of a stage once it is over: how it ended and what it left behind
StageResult ==
  [kind |-> kind, ended |-> pc, outcome |-> outcome, resource |-> remote,
   created |-> \E i \in DOMAIN log : log[i].op = "create" /\ log[i].resp = "ok"]

\* the script calls the next function when the previous call returned: an
\* exception raised by a stage unwinds the script
ChainContinues(o) == o = "ok"

InitChain ==
  /\ kind = ChainOrder[1]
  /\ remote \in {Absent, Stale}
  /\ pc = Entry_pc(kind)
  /\ outcome = "none"
  /\ log = <<>>
  /\ now = 0
  /\ start_time = 0
  /\ polls = 0
  /\ fails = 0
  /\ run = 1
  /\ finals = <<>>
  /\ args = ChainArgs(kind)
  /\ service = NoService
  /\ stages = <<>>
  /\ walk = NoWalk

\* the call of one stage is over and the script calls the next stage, whose
\* resource may or may not exist already
NextStage ==
  /\ pc \in {"done", "failed"}
  /\ ChainContinues(outcome)
  /\ Len(stages) + 1 < Len(ChainOrder)
  /\ stages' = Append(stages, StageResult)
  /\ kind' = ChainOrder[Len(stages) + 2]
  /\ args' = ChainArgs(kind')
  /\ remote' \in {Absent, Stale}
  /\ pc' = Entry_pc(kind')
  /\ outcome' = "none"
  /\ log' = <<>>
  /\ now' = 0
  /\ start_time' = 0
  /\ polls' = 0
  /\ fails' = 0
  /\ UNCHANGED <<run, finals, service, walk>>

NextChain ==
  \/ GetExisting
  \/ DeleteCall
  \/ WaitForDeletion
  \/ CreateCall
  \/ CreateApiConfig
  \/ ActivationPoll
  \/ RemoteFinishDelete
  \/ RemoteActivate
  \/ NextStage

SpecChain == InitChain /\ [][NextChain]_vars

\* C11: in the chain GatewayApi, GatewayApiConfig, Gateway the stage that is
\* running is preceded by exactly the stages before it in that order, each of
\* which ran to its end, returned normally and created its resource; so no call
\* of a stage is issued before the previous stage returned successfully, and a
\* stage that raised is followed by no stage.
C11_ChainStagesInOrder ==
  /\ Len(stages) < Len(ChainOrder)
  /\ kind = ChainOrder[Len(stages) + 1]
  /\ \A i \in DOMAIN stages :
       /\ stages[i].kind = ChainOrder[i]
       /\ stages[i].ended = "done"
       /\ stages[i].outcome = "ok"
       /\ stages[i].created
       /\ stages[i].resource.spec = DesiredSpec
  /\ pc = "failed" => ~ChainContinues(outcome)

\* the three stages ran and the last one returned
C11_Witness ==
  /\ kind = "Gateway"
  /\ pc = "done"
  /\ Len(stages) = 2
  /\ \E i \in DOMAIN log : log[i].op = "create" /\ log[i].resp = "ok"

\* the run has issued a create call that the remote side accepted
Created == \E c \in Ops("create") : log[c].resp = "ok"

\* C12: no delete call of a run follows a create call of that run, and from the
\* create call the remote side accepted on, the resource it created stays in
\* place, also when the run ends in an error.
C12_NoRollback ==
  /\ \A c \in Ops("create") : \A d \in Ops("delete") : d < c
  /\ Created =>
       /\ remote.spec = DesiredSpec
       /\ remote.status \in {"creating", "active"}

\* a run that created its resource and then ended in an error
C12_Witness ==
  /\ pc = "failed"
  /\ Created
  /\ Ops("delete") # {}
  /\ remote.status \in {"creating", "active"}

\* C13: deploy_to_cloud_run builds its Service descriptor before its first remote
\* call and leaves it as built; given a Cloud SQL connection name the descriptor
\* has exactly one volume mount and one volume, both named "cloudsql", and the one
\* annotation run.googleapis.com/cloudsql-instances; given none (or an empty
\* string) it has no mount, no volume and no annotation.
C13_CloudSqlDescriptor ==
  kind = "Service" =>
     /\ pc = "build" => (service = NoService /\ log = <<>>)
     /\ log # <<>> => pc # "build"
     /\ pc # "build" =>
          IF Truthy(args.cloud_sql_instance)
          THEN /\ Len(service.volume_mounts) = 1
               /\ service.volume_mounts[1].name = "cloudsql"
               /\ Len(service.volumes) = 1
               /\ service.volumes[1].name = "cloudsql"
               /\ service.volumes[1].instances = <<args.cloud_sql_instance>>
               /\ Cardinality(service.annotations) = 1
               /\ \A a \in service.annotations :
                    /\ a.key = "run.googleapis.com/cloudsql-instances"
                    /\ a.value = args.cloud_sql_instance
          ELSE /\ Len(service.volume_mounts) = 0
               /\ Len(service.volumes) = 0
               /\ Cardinality(service.annotations) = 0

\* a deployment with a Cloud SQL instance that ran to its end
C13_Witness ==
  /\ kind = "Service"
  /\ args.cloud_sql_instance = "proj:region:inst"
  /\ pc = "done"
  /\ Len(service.volume_mounts) = 1
  /\ Cardinality(service.annotations) = 1
  /\ Ops("create") # {}

\* the remote calls of the run: everything logged but the sleeps
RemoteCalls == {i \in DOMAIN log : log[i].op # "sleep"}

\* one of project id, region/location and resource name is the empty string
HasEmptyArgument(a) == a.project_id = "" \/ a.region = "" \/ a.name = ""

\* C14: an operation given an empty project id, region/location or resource name
\* issues no remote call.
C14_EmptyArgumentRejected ==
  HasEmptyArgument(args) => RemoteCalls = {}

-----------------------------------------------------------------------------
(* find_env_file.  The directories that matter are those on the path from the *)
(* root to the working directory; each is named by its depth, the root by 0.  *)

\* deepest working directory tried
MaxDepth == 4

\* os.path.dirname: the parent directory, and the root for the root
dirname(d) == IF d = 0 THEN 0 ELSE d - 1

\* os.path.isfile(os.path.join(d, ".env")) in a file system whose .env files on the
\* path are in the directories `env_dirs`
isfile_env(d, env_dirs) == d \in env_dirs

\* current_dir = os.getcwd(), in any working directory and any placement of .env files
InitEnv ==
  /\ \E cwd \in 0..MaxDepth : \E dirs \in SUBSET (0..cwd) :
       walk = [cwd |-> cwd, env_dirs |-> dirs, current_dir |-> cwd,
               result |-> "walking", env_path |-> -1]
  /\ kind = "Service"
  /\ remote = Absent
  /\ pc = "idle"
  /\ outcome = "none"
  /\ log = <<>>
  /\ now = 0
  /\ start_time = 0
  /\ polls = 0
  /\ fails = 0
  /\ run = 1
  /\ finals = <<>>
  /\ args = [project_id |-> "id", region |-> "id", name |-> "id", cloud_sql_instance |-> "None"]
  /\ service = NoService
  /\ stages = <<>>

program == <<kind, remote, pc, outcome, log, now, start_time, polls, fails, run, finals,
             args, service, stages>>

\* while current_dir != os.path.dirname(current_dir)
InLoop(w) == w.current_dir # dirname(w.current_dir)

\* if os.path.isfile(env_path): return env_path
EnvFound ==
  /\ walk.result = "walking"
  /\ InLoop(walk)
  /\ isfile_env(walk.current_dir, walk.env_dirs)
  /\ walk' = [walk EXCEPT !.result = "found", !.env_path = walk.current_dir]
  /\ UNCHANGED program

\* current_dir = os.path.dirname(current_dir)
EnvAscend ==
  /\ walk.result = "walking"
  /\ InLoop(walk)
  /\ ~isfile_env(walk.current_dir, walk.env_dirs)
  /\ walk' = [walk EXCEPT !.current_dir = dirname(walk.current_dir)]
  /\ UNCHANGED program

\* the loop is over: print(".env file not found"); sys.exit(1)
EnvExit ==
  /\ walk.result = "walking"
  /\ ~InLoop(walk)
  /\ walk' = [walk EXCEPT !.result = "exit1"]
  /\ UNCHANGED program

NextEnv == EnvFound \/ EnvAscend \/ EnvExit

SpecEnv == InitEnv /\ [][NextEnv]_vars

\* the directory nearest to the working directory among those of S
Nearest(S) == CHOOSE d \in S : \A e \in S : e <= d

\* C15: find_env_file returns the .env of the nearest directory that has one among
\* the working directory and all its ancestors, the root included, and exits with
\* status 1 exactly when none of them has one.
C15_NearestEnvRootIncluded ==
  walk.result \in {"found", "exit1"} =>
     /\ (walk.result = "exit1") <=> (walk.env_dirs = {})
     /\ walk.result = "found" => walk.env_path = Nearest(walk.env_dirs)

\* the gets of the run issued after a create call of the run
GetsAfterCreate == {g \in Ops("get") : \E c \in Ops("create") : c < g}

\* C16 as stated: only deploy_to_cloud_run polls after its create call; the three
\* gateway operations issue no get after create and return as soon as the create
\* call returned.
C16_ActivationPollServiceOnly ==
  kind # "Service" =>
     /\ GetsAfterCreate = {}
     /\ \A c \in Ops("create") :
          log[c].resp = "ok" => (c = Len(log) /\ pc = "done")

\* C16 amended: deploy_to_cloud_run and create_api_gateway_service poll get after
\* their create call and go on only after a get that succeeded;
\* create_or_update_api_config and create_gateway issue no get after create and
\* return as soon as the create call returned.
C16_ActivationPollServiceAndApi ==
  /\ kind \in {"GatewayApiConfig", "Gateway"} =>
       /\ GetsAfterCreate = {}
       /\ \A c \in Ops("create") :
            log[c].resp = "ok" => (c = Len(log) /\ pc = "done" /\ outcome = "ok")
  /\ kind \in {"Service", "GatewayApi"} =>
       /\ \A g \in GetsAfterCreate : log[g].ph = "activate"
       /\ \A c \in Ops("create") :
            /\ (log[c].resp = "ok" /\ c = Len(log)) => pc = "activate"
            /\ (log[c].resp = "ok" /\ pc \in {"bind", "done"}) =>
                 \E g \in GetsAfterCreate : IsGet(g, "found")

\* create_api_gateway_service polled twice after create_api and then returned
C16_Witness ==
  /\ kind = "GatewayApi"
  /\ pc = "done"
  /\ Cardinality(GetsAfterCreate) = 2
  /\ IsGet(Len(log), "found")

-----------------------------------------------------------------------------
(* The operations with another actor that can remove the resource.            *)

\* somebody else removes the resource after the existence check found it and
\* before the operation's delete call
RemoteVanish ==
  /\ pc = "delete"
  /\ remote.status = "active"
  /\ remote' = Absent
  /\ UNCHANGED <<kind, pc, outcome, log, now, start_time, polls, fails, run, finals>>
  /\ UNCHANGED <<service, frame>>

NextRace == Next \/ RemoteVanish

SpecRace == Init /\ [][NextRace]_vars

\* the delete calls of the run that raised NotFound
DeleteNotFound == {d \in Ops("delete") : log[d].resp = "notfound"}

\* C17: a NotFound raised in the delete phase, by the delete call or by a get of
\* the deletion wait, never ends the run: the operation goes on to the create
\* call, which is the next call it issues.
C17_NotFoundInDeletePhaseProceeds ==
  \A i \in DOMAIN log :
     (log[i].resp = "notfound" /\ log[i].ph \in {"delete", "wait"}) =>
        /\ i = Len(log) => (pc = "create" /\ outcome = "none")
        /\ i < Len(log) => log[i + 1].op = "create"

\* the resource vanished before the delete call, which raised NotFound; the
\* operation created the resource all the same
C17_Witness ==
  /\ DeleteNotFound # {}
  /\ Created
  /\ log[1].resp = "found"
  /\ Ops("get") = {1}

\* C18: create_or_update_api_config raises the deadline error exactly when a create
\* attempt has just failed and strictly more than 10 minutes have passed since the
\* retry loop began; a failure at 10 minutes or less is followed by the sleep, and
\* an attempt that returns ends the loop with success whatever time has passed.
C18_DeadlineCheckedAfterFailure ==
  kind = "GatewayApiConfig" =>
     /\ (outcome = "deadline") <=>
          /\ log # <<>>
          /\ log[Len(log)].op = "create"
          /\ log[Len(log)].resp = "error"
          /\ ElapsedAtReturn(Len(log)) > MaxDurationSeconds
     /\ \A c \in FailedCreates :
          ElapsedAtReturn(c) <= MaxDurationSeconds =>
             (c < Len(log) /\ log[c + 1].op = "sleep")
     /\ \A c \in FailedCreates :
          ElapsedAtReturn(c) > MaxDurationSeconds =>
             (c = Len(log) /\ pc = "failed" /\ outcome = "deadline")
     /\ \A c \in Ops("create") :
          log[c].resp = "ok" => (pc = "done" /\ outcome = "ok")

\* an attempt that started after the 10 minutes returned: the operation succeeded
C18_Witness ==
  /\ kind = "GatewayApiConfig"
  /\ outcome = "ok"
  /\ \E c \in Ops("create") :
       /\ log[c].resp = "ok"
       /\ log[c].at - start_time > MaxDurationSeconds
  /\ \E c \in FailedCreates : ElapsedAtReturn(c) = MaxDurationSeconds

\* the existence check, the delete call and the deletion wait
BeforeRetryLoop(i) == log[i].ph \in {"get", "delete", "wait"}

\* C19: in create_or_update_api_config the 10 minutes count from the first create
\* attempt: everything of the existence check, the delete call and the deletion
\* wait is over by start_time, a failed attempt is judged by the time since the
\* first attempt began (not since the function was called), and an operation
\* that fails before the retry loop never fails with the deadline error.
C19_DeadlineCountsFromRetryLoop ==
  kind = "GatewayApiConfig" =>
     /\ Ops("create") # {} =>
          /\ start_time = log[Min(Ops("create"))].at
          /\ \A i \in DOMAIN log : BeforeRetryLoop(i) => log[i].ret <= start_time
          /\ \A c \in FailedCreates :
               log[c].ret - log[Min(Ops("create"))].at <= MaxDurationSeconds =>
                  (c < Len(log) /\ log[c + 1].op = "sleep")
     /\ outcome = "deadline" => log[Len(log)].ph = "create"
     /\ (pc = "failed" /\ BeforeRetryLoop(Len(log))) => outcome = "fatal"

\* the deletion wait took time, and an attempt that failed more than 10 minutes
\* after the call, but not more than 10 minutes after the first attempt, was
\* followed by another attempt
C19_Witness ==
  /\ kind = "GatewayApiConfig"
  /\ \E i \in Ops("sleep") : log[i].ph = "wait"
  /\ start_time > 0
  /\ \E c \in FailedCreates :
       /\ log[c].ret > MaxDurationSeconds
       /\ ElapsedAtReturn(c) <= MaxDurationSeconds
       /\ c + 2 <= Len(log)
       /\ log[c + 2].op = "create"

====
